---- MODULE Spec2Model ----
(***************************************************************************)
(* Video ingestion pipeline of the Componion backend.                      *)
(*                                                                         *)
(* The state is the content of the three stores the pipeline writes        *)
(* (video_processing_status, video_analysis, tv_show_info), the working    *)
(* files under youtube/data, the Flask request handlers of                 *)
(* POST /video/process that are in flight, and the background threads      *)
(* they started.  Every store call is one transaction (engine.begin()),    *)
(* so it is one atomic step; the handler and the thread are sequences of   *)
(* such steps and interleave freely (async_mode='threading').              *)
(*                                                                         *)
(* The stores themselves are taken to be reliable: a statement sent to     *)
(* the database is executed.  The outcomes of the external providers       *)
(* (caption API, yt-dlp, OpenCV, Gemini, TMDB) are chosen                   *)
(* nondeterministically at the step that calls them.                       *)
(***************************************************************************)
EXTENDS Integers, FiniteSets, Sequences, TLC

\* ------------------------------------------------------------------ bounds
MaxReq == 2        \* Ingest requests (POST /video/process) ever received
NumVideos == 1     \* distinct YouTube video ids the URLs can name
MaxPoll == 1       \* status polls (GET /video/status/<url>) ever received
MaxCalls == 3      \* store calls issued directly, one after the other

\* ------------------------------------------------------------------ inputs
\* A URL is abstracted to the form the regex of extract_video_id_from_url
\* recognises and the 11-character id it carries: "watch" (…/watch?v=ID),
\* "short" (youtu.be/ID), or "other" (no match).
URLs ==
    {[form |-> f, id |-> i] : f \in {"watch", "short"}, i \in 1..NumVideos}
        \cup {[form |-> "other", id |-> 0]}

Sessions == {"s1"}

None == 0          \* Python None / SQL NULL for ids and timestamps

\* YoutubeExtractor.extract_video_id_from_url: group(1) of the match, or None.
extract_video_id_from_url(url) ==
    IF url.form \in {"watch", "short"} THEN url.id ELSE None

\* ------------------------------------------------------------------ stores
ModelTypes == {"transcript", "image_descriptions", "show_identification"}

NoMessage == [kind |-> "null", comps |-> {}, errs |-> {}]

NoRow ==
    [present |-> FALSE, id |-> None, session_id |-> "", status |-> "",
     progress |-> 0, error_message |-> NoMessage,
     started_at |-> None, completed_at |-> None]

NoRecord == [kind |-> "absent"]

NoShow == [present |-> FALSE, title |-> FALSE, tmdb_id |-> None]

\* VideoProcessingStatus.create: INSERT ... ON CONFLICT (video_url) DO UPDATE
\* SET status, session_id, started_at.  `now` stands for NOW(): a stamp that
\* is different for every call (the id of the request that issues it).
\* A fresh row takes the column defaults for the fields the INSERT omits.
CreateStatus(st, url, session_id, status, now) ==
    IF st[url].present
    THEN [st EXCEPT ![url].status = status,
                    ![url].session_id = session_id,
                    ![url].started_at = now]
    ELSE [st EXCEPT ![url] =
            [present |-> TRUE, id |-> now, session_id |-> session_id,
             status |-> status, progress |-> 0, error_message |-> NoMessage,
             started_at |-> now, completed_at |-> None]]

\* VideoProcessingStatus.update_status: UPDATE ... WHERE video_url = :video_url
\* (no row: nothing happens).
UpdateStatus(st, url, status, progress, error_message, now) ==
    IF ~st[url].present THEN st
    ELSE IF status = "completed"
    THEN [st EXCEPT ![url].status = status,
                    ![url].progress = progress,
                    ![url].completed_at = now]
    ELSE IF status = "failed"
    THEN [st EXCEPT ![url].status = status,
                    ![url].error_message = error_message,
                    ![url].completed_at = now]
    ELSE [st EXCEPT ![url].status = status,
                    ![url].progress = progress]

\* A lookup that reports rows only once both modalities are stored.
AnalysisRows_BothModalities(an, url) ==
    IF an[url]["transcript"].kind # "absent"
          /\ an[url]["image_descriptions"].kind # "absent"
    THEN {m \in ModelTypes : an[url][m].kind # "absent"}
    ELSE {}

\* VideoAnalysis.get_by_video_url: the rows of the key (a list; empty is falsy).
AnalysisRows(an, url) == {m \in ModelTypes : an[url][m].kind # "absent"}

\* VideoAnalysis.create: upsert on (video_id, model_type).
CreateAnalysis(an, url, model_type, payload) ==
    [an EXCEPT ![url][model_type] = payload]

\* An upsert that stores the title but loses the catalog id.
CreateShow_DropsCatalogId(tv, url, title, tmdb_id) ==
    [tv EXCEPT ![url] = [present |-> TRUE, title |-> title,
                         tmdb_id |-> None]]

\* TVShowInfo.create: upsert on video_url.  Of the row, `title` says whether
\* a title is stored and tmdb_id is the catalog id or None.
CreateShow(tv, url, title, tmdb_id) ==
    [tv EXCEPT ![url] = [present |-> TRUE, title |-> title,
                         tmdb_id |-> tmdb_id]]

\* ------------------------------------------------------------------- state
VARIABLES
    status,     \* video_processing_status: URL -> row
    analysis,   \* video_analysis: URL -> model_type -> payload
    tvshow,     \* tv_show_info: URL -> record
    files,      \* working files under youtube/data: <<video_id, kind>>
    reqs,       \* the process_video handlers, by request number
    threads,    \* the process_video_background threads, by run number
    polls,      \* the get_video_processing_status handlers, by poll number
    tables,     \* the three tables as sets of rows (store calls issued directly)
    call,       \* the last call issued directly: its number, name and arguments
    connections,      \* Socket.IO connections: sid -> unused, connected, disconnected
    user_sessions,    \* socket_events.user_sessions: sid -> session_id, is_master
    session_masters,  \* socket_events.session_masters: session_id -> sid
    session_users,    \* session_users table: <<session_id, user_id>>
    sessions,         \* sessions table: id -> is_master, active
    rooms,            \* Socket.IO rooms: <<room, sid>>
    emitted           \* what the last handled socket event emitted

\* The state of the socket handlers.
socket_vars ==
    <<connections, user_sessions, session_masters, session_users, sessions,
      rooms, emitted>>

vars ==
    <<status, analysis, tvshow, files, reqs, threads, polls, tables, call,
      socket_vars>>

Reqs == DOMAIN reqs
Runs == DOMAIN threads

FileKinds == {"audio", "screenshot", "transcript"}

NoTables == [status |-> {}, analysis |-> {}, tvshow |-> {}]
NoCall == [n |-> 0, op |-> "none", retry |-> FALSE]

MaxUsers == 2      \* Socket.IO connections
SIDs == 1..MaxUsers
\* The rows of the sessions table: "m" was created with is_master true, "p"
\* with is_master false (POST /sessions, routes.py 19-47).
SessionIds == {"m", "p"}

Init ==
    /\ status = [u \in URLs |-> NoRow]
    /\ analysis = [u \in URLs |-> [m \in ModelTypes |-> NoRecord]]
    /\ tvshow = [u \in URLs |-> NoShow]
    /\ files = {}
    /\ reqs = <<>>
    /\ threads = <<>>
    /\ polls = <<>>
    /\ tables = NoTables
    /\ call = NoCall
    /\ connections = [u \in SIDs |-> "unused"]
    /\ user_sessions = <<>>
    /\ session_masters = <<>>
    /\ session_users = {}
    /\ sessions = [s \in SessionIds |->
                      [is_master |-> s = "m", active |-> TRUE]]
    /\ rooms = {}
    /\ emitted = {}

\* ------------------------------------------------- POST /video/process
\* A handler is done when it has returned its JSON response: `resp` is the
\* "status" field of the response, `started` the run it started (or None).
\* `arr` remembers the status of the key's row when the request arrived.
Responded(r, resp, progress, started) ==
    [r EXCEPT !.pc = "done", !.resp = resp, !.progress = progress,
              !.started = started]

NewThread(url, req) ==
    [url |-> url, req |-> req, pc |-> "status10", video_id |-> None,
     comps |-> {}, errs |-> {}, stt |-> "", shots |-> "",
     desc |-> FALSE, ident |-> "", tmdb |-> "", prog |-> 0,
     ret |-> "", msg |-> NoMessage, result |-> ""]

\* routes.py 272-281: the request arrives and VideoAnalysis.get_by_video_url
\* is read; any row at all answers 'completed'.
ProcessVideoArrive(url, session_id) ==
    /\ Len(reqs) < MaxReq
    /\ LET r == [url |-> url, session_id |-> session_id, pc |-> "check_status",
                 arr |-> status[url].status, resp |-> "", progress |-> 0,
                 started |-> None]
       IN  reqs' = Append(reqs,
                IF AnalysisRows(analysis, url) # {}
                THEN Responded(r, "completed", 0, None)
                ELSE r)
    /\ UNCHANGED <<socket_vars, status, analysis, tvshow, files, threads, polls, tables, call>>

\* routes.py 283-290: VideoProcessingStatus.get_by_video_url.
ProcessVideoCheckStatus(r) ==
    /\ reqs[r].pc = "check_status"
    /\ LET row == status[reqs[r].url]
       IN  reqs' = [reqs EXCEPT ![r] =
                IF row.present /\ row.status \in {"pending", "processing"}
                THEN Responded(@, row.status, row.progress, None)
                ELSE [@ EXCEPT !.pc = "create"]]
    /\ UNCHANGED <<socket_vars, status, analysis, tvshow, files, threads, polls, tables, call>>

\* routes.py 292-335: VideoProcessingStatus.create(..., 'pending'), then the
\* daemon thread is started and 202 'pending' is returned.
ProcessVideoStart(r) ==
    /\ reqs[r].pc = "create"
    /\ status' = CreateStatus(status, reqs[r].url, reqs[r].session_id,
                              "pending", r)
    /\ threads' = Append(threads, NewThread(reqs[r].url, r))
    /\ reqs' = [reqs EXCEPT ![r] =
                    Responded(@, "pending", 0, Len(threads) + 1)]
    /\ UNCHANGED <<socket_vars, analysis, tvshow, files, polls, tables, call>>

\* ------------------------------------------ process_video_background
\* Local state of a run: comps = processed_components, errs = errors (each
\* entry by the stage its text names: "transcript_audio" for "Failed to
\* extract transcript or audio", "transcript_error" for "Transcript/audio
\* processing error"),
\* ret/msg = the (success, message) pair preprocess_youtube_url returns,
\* prog = the last progress value this run wrote, result = the terminal
\* status this run wrote.  stt, shots, ident, tmdb keep what the external
\* calls of the run returned.
\*
\* A step of a run is one write of the status row together with the call
\* that follows it in the code (an external call, or one store write).
Vid(t) == threads[t].video_id

\* update_progress (routes.py 305-308) and the direct update_status calls of
\* lines 299 and 311: one UPDATE of the key's row.
update_progress(st, t, progress) ==
    UpdateStatus(st, threads[t].url, "processing", progress, NoMessage, None)

ProgressCallback(t, pc, progress, next) ==
    /\ threads[t].pc = pc
    /\ status' = update_progress(status, t, progress)
    /\ threads' = [threads EXCEPT ![t].pc = next, ![t].prog = progress]
    /\ UNCHANGED <<socket_vars, analysis, tvshow, files, reqs, polls, tables, call>>

\* A step of the run that writes no store and no file.
Local(t, pc, th) ==
    /\ threads[t].pc = pc
    /\ threads' = [threads EXCEPT ![t] = th]
    /\ UNCHANGED <<socket_vars, status, analysis, tvshow, files, reqs, polls, tables, call>>

Return(th, success, msg) ==
    [th EXCEPT !.pc = "final", !.ret = IF success THEN "ok" ELSE "fail",
               !.msg = msg]

\* A success path that returns without cleaning the working files up.
Overall_SkipsCleanup(th) ==
    IF th.comps # {}
    THEN [th EXCEPT !.pc = "final", !.ret = "ok",
                    !.msg = [kind |-> "not_cleaned", comps |-> th.comps,
                             errs |-> th.errs]]
    ELSE [th EXCEPT !.pc = "final", !.ret = "fail",
                    !.msg = [kind |-> "none_processed", comps |-> {},
                             errs |-> th.errs]]

\* A success test that counts a run without components as a success.
Overall_AlwaysSucceeds(th) == [th EXCEPT !.pc = "cleanup"]

\* VideoPreprocessor.py 589-604: "Determine overall success".
Overall(th) ==
    IF th.comps # {}
    THEN [th EXCEPT !.pc = "cleanup"]
    ELSE Return(th, FALSE,
                [kind |-> "none_processed", comps |-> {}, errs |-> th.errs])

\* VideoPreprocessor.py 581-582.
EndScreenshots(th) ==
    Overall(IF th.comps \cap {"image_descriptions", "show_identification"} = {}
            THEN [th EXCEPT !.errs = @ \cup {"no_screenshots_processed"}]
            ELSE th)

\* VideoPreprocessor.py 559: `if show_identification.get("response")`.
SaveIdentification(th) ==
    IF th.ident \in {"no_title", "json_title", "json_bad"}
    THEN [th EXCEPT !.pc = "save_identification"]
    ELSE EndScreenshots(th)

\* VideoPreprocessor.py 546: `if screenshot_description.get("descriptions")`.
SaveDescriptions(th) ==
    IF th.desc THEN [th EXCEPT !.pc = "save_descriptions"]
    ELSE SaveIdentification(th)

\* routes.py 299 and 311.
T_status10(t) == ProgressCallback(t, "status10", 10, "status20")
T_status20(t) == ProgressCallback(t, "status20", 20, "progress30")

\* routes.py 312, then VideoPreprocessor.py 431-432: progress 30, and
\* _initialize_gemini_api (GeminiAPI() raises without GEMINI_API_KEY).
T_progress30(t) ==
    /\ threads[t].pc = "progress30"
    /\ status' = update_progress(status, t, 30)
    /\ \E ok \in BOOLEAN :
         threads' = [threads EXCEPT ![t] =
            IF ok THEN [@ EXCEPT !.prog = 30, !.pc = "progress35"]
            ELSE Return([@ EXCEPT !.prog = 30], FALSE,
                        [kind |-> "gemini_init", comps |-> {}, errs |-> {}])]
    /\ UNCHANGED <<socket_vars, analysis, tvshow, files, reqs, polls, tables, call>>

\* VideoPreprocessor.py 436-444: progress 35, then the video id is derived.
T_progress35(t) ==
    /\ threads[t].pc = "progress35"
    /\ status' = update_progress(status, t, 35)
    /\ LET id == extract_video_id_from_url(threads[t].url)
           th == [threads[t] EXCEPT !.prog = 35, !.video_id = id]
       IN  threads' = [threads EXCEPT ![t] =
                IF id = None
                THEN Return(th, FALSE,
                            [kind |-> "no_video_id", comps |-> {}, errs |-> {}])
                ELSE [th EXCEPT !.pc = "progress40"]]
    /\ UNCHANGED <<socket_vars, analysis, tvshow, files, reqs, polls, tables, call>>

\* VideoPreprocessor.py 446-454.
T_progress40(t) == ProgressCallback(t, "progress40", 40, "extract_transcript")

\* VideoPreprocessor.py 462-466: progress 45, then
\* YoutubeExtractor.extract_and_save_transcript: True with the transcript
\* file written, or False (every exception is caught there).
T_extract_transcript(t) ==
    /\ threads[t].pc = "extract_transcript"
    /\ status' = update_progress(status, t, 45)
    /\ \E found \in BOOLEAN :
        /\ files' = IF found THEN files \cup {<<Vid(t), "transcript">>} ELSE files
        /\ threads' = [threads EXCEPT ![t].prog = 45, ![t].pc =
                          IF found THEN "save_transcript" ELSE "extract_audio"]
    /\ UNCHANGED <<socket_vars, analysis, tvshow, reqs, polls, tables, call>>

\* VideoPreprocessor.py 473-485: progress 55; _parse_transcript_to_json
\* reads the file (an unreadable file gives [] there); the transcript row
\* is written.
T_save_transcript(t) ==
    /\ threads[t].pc = "save_transcript"
    /\ status' = update_progress(status, t, 55)
    /\ analysis' = CreateAnalysis(analysis, threads[t].url, "transcript",
            [kind |-> IF <<Vid(t), "transcript">> \in files
                      THEN "captions" ELSE "empty"])
    /\ threads' = [threads EXCEPT ![t].pc = "extract_screenshot",
                                  ![t].prog = 55,
                                  ![t].comps = @ \cup {"transcript"}]
    /\ UNCHANGED <<socket_vars, tvshow, files, reqs, polls, tables, call>>

\* YoutubeExtractor.extract_and_save_audio: True with the mp3 written, or
\* False; VideoPreprocessor.py 514-515 records the failure.
T_extract_audio(t) ==
    /\ threads[t].pc = "extract_audio"
    /\ \E ok \in BOOLEAN :
        /\ files' = IF ok THEN files \cup {<<Vid(t), "audio">>} ELSE files
        /\ threads' = [threads EXCEPT ![t] =
              IF ok THEN [@ EXCEPT !.pc = "a2t_upload"]
              ELSE [@ EXCEPT !.pc = "extract_screenshot",
                             !.errs = @ \cup {"transcript_audio"}]]
    /\ UNCHANGED <<socket_vars, status, analysis, tvshow, reqs, polls, tables, call>>

\* GeminiAPI.audio2text 96-110: upload_file; a failed upload (or a missing
\* file) returns an "Error: ..." string as the transcription.
T_a2t_upload(t) ==
    \E st \in {"raise", "PROCESSING", "ACTIVE", "FAILED"} :
        /\ (<<Vid(t), "audio">> \notin files) => st = "raise"
        /\ Local(t, "a2t_upload",
              CASE st = "PROCESSING" -> [threads[t] EXCEPT !.pc = "a2t_sleep"]
                [] st = "ACTIVE" -> [threads[t] EXCEPT !.pc = "a2t_generate"]
                [] OTHER -> [threads[t] EXCEPT !.pc = "save_audio_transcript",
                                               !.stt = "error"])

\* GeminiAPI.audio2text 104-106: time.sleep(2) inside the polling loop.
T_a2t_sleep(t) ==
    Local(t, "a2t_sleep", [threads[t] EXCEPT !.pc = "a2t_get_file"])

\* GeminiAPI.audio2text 107-110: genai.get_file; an exception here leaves
\* audio2text and is caught at VideoPreprocessor.py 517-518.
T_a2t_get_file(t) ==
    \E st \in {"raise", "PROCESSING", "ACTIVE", "FAILED"} :
        Local(t, "a2t_get_file",
              CASE st = "PROCESSING" -> [threads[t] EXCEPT !.pc = "a2t_sleep"]
                [] st = "ACTIVE" -> [threads[t] EXCEPT !.pc = "a2t_generate"]
                [] st = "FAILED" ->
                      [threads[t] EXCEPT !.pc = "save_audio_transcript",
                                         !.stt = "error"]
                [] OTHER -> [threads[t] EXCEPT !.pc = "extract_screenshot",
                                !.errs = @ \cup {"transcript_error"}])

\* GeminiAPI.audio2text 112-120: generate_content returns the text, or an
\* "Error during audio transcription" string.
T_a2t_generate(t) ==
    \E text \in {"text", "error"} :
        Local(t, "a2t_generate",
              [threads[t] EXCEPT !.pc = "save_audio_transcript", !.stt = text])

\* VideoPreprocessor.py 500-513: whatever string audio2text returned becomes
\* the single-segment transcript row.
T_save_audio_transcript(t) ==
    /\ threads[t].pc = "save_audio_transcript"
    /\ analysis' = CreateAnalysis(analysis, threads[t].url, "transcript",
            [kind |-> IF threads[t].stt = "text"
                      THEN "speech" ELSE "error_text"])
    /\ threads' = [threads EXCEPT ![t].pc = "extract_screenshot",
                                  ![t].stt = "",
                                  ![t].comps = @ \cup {"audio_transcription"}]
    /\ UNCHANGED <<socket_vars, status, tvshow, files, reqs, polls, tables, call>>

\* A frame stage that goes on to the vision-model calls whatever
\* extract_and_save_screenshot returned.
T_extract_screenshot_IgnoresResult(t) ==
    /\ threads[t].pc = "extract_screenshot"
    /\ status' = update_progress(status, t, 65)
    /\ \E out \in {"false", "raise", "frames", "empty"} :
        /\ files' = IF out = "frames"
                    THEN files \cup {<<Vid(t), "screenshot">>} ELSE files
        /\ threads' = [threads EXCEPT ![t] =
                          [@ EXCEPT !.prog = 65, !.shots = out,
                                    !.pc = "describe_glob"]]
    /\ UNCHANGED <<socket_vars, analysis, tvshow, reqs, polls, tables, call>>

\* VideoPreprocessor.py 522-526 and 583-587: progress 65, then
\* YoutubeExtractor.extract_and_save_screenshot: False (no stream), an
\* exception, True with frames written, or True with no frame read ("empty").
T_extract_screenshot(t) ==
    /\ threads[t].pc = "extract_screenshot"
    /\ status' = update_progress(status, t, 65)
    /\ \E out \in {"false", "raise", "frames", "empty"} :
        /\ files' = IF out = "frames"
                    THEN files \cup {<<Vid(t), "screenshot">>} ELSE files
        /\ threads' = [threads EXCEPT ![t] =
              CASE out = "false" ->
                      Overall([@ EXCEPT !.prog = 65, !.shots = out,
                                  !.errs = @ \cup {"no_screenshots"}])
                [] out = "raise" ->
                      Overall([@ EXCEPT !.prog = 65, !.shots = out,
                                  !.errs = @ \cup {"screenshot_error"}])
                [] OTHER -> [@ EXCEPT !.prog = 65, !.shots = out,
                                      !.pc = "describe_glob"]]
    /\ UNCHANGED <<socket_vars, analysis, tvshow, reqs, polls, tables, call>>

\* VideoPreprocessor.py 527-528, describe_screenshots 129-135: progress 75,
\* then the glob of the video id's screenshots; none gives no descriptions.
T_describe_glob(t) ==
    /\ threads[t].pc = "describe_glob"
    /\ status' = update_progress(status, t, 75)
    /\ threads' = [threads EXCEPT ![t].prog = 75, ![t].pc =
                      IF <<Vid(t), "screenshot">> \in files
                      THEN "describe80" ELSE "identify_glob"]
    /\ UNCHANGED <<socket_vars, analysis, tvshow, files, reqs, polls, tables, call>>

\* describe_screenshots 147-153: progress 80, then GeminiAPI.images2text,
\* which returns the model's text or an "Error ..." string and never raises.
T_describe80(t) == ProgressCallback(t, "describe80", 80, "describe85")

\* describe_screenshots 155-254: progress 85, then one entry per file is
\* built whatever the response was (JSON array, other text, error string).
T_describe85(t) ==
    /\ threads[t].pc = "describe85"
    /\ status' = update_progress(status, t, 85)
    /\ threads' = [threads EXCEPT ![t].pc = "identify_glob", ![t].prog = 85,
                                  ![t].desc = TRUE]
    /\ UNCHANGED <<socket_vars, analysis, tvshow, files, reqs, polls, tables, call>>

\* _process_screenshots 93-99: the glob of identify_show_from_screenshots.
T_identify_glob(t) ==
    Local(t, "identify_glob",
          IF <<Vid(t), "screenshot">> \in files
          THEN [threads[t] EXCEPT !.pc = "identify80"]
          ELSE SaveDescriptions([threads[t] EXCEPT !.ident = "none"]))

\* _process_screenshots 103-109: progress 80, then images2text.  The
\* identification response has no usable title ("no_title": text without a
\* JSON object, such as an "Error ..." string of images2text, or a JSON
\* object without a title or of type Other), or is a JSON object with a
\* title of a TV show or movie, or one whose fields make the later
\* processing raise.
T_identify80(t) ==
    /\ threads[t].pc = "identify80"
    /\ status' = update_progress(status, t, 80)
    /\ \E v \in {"no_title", "json_title", "json_bad"} :
        /\ (<<Vid(t), "screenshot">> \notin files) => v = "no_title"
        /\ threads' = [threads EXCEPT ![t].pc = "identify85", ![t].prog = 80,
                                      ![t].ident = v]
    /\ UNCHANGED <<socket_vars, analysis, tvshow, files, reqs, polls, tables, call>>

\* _process_screenshots 111-118, then VideoPreprocessor.py 544-546.
T_identify85(t) ==
    /\ threads[t].pc = "identify85"
    /\ status' = update_progress(status, t, 85)
    /\ threads' = [threads EXCEPT ![t] =
                      SaveDescriptions([@ EXCEPT !.prog = 85])]
    /\ UNCHANGED <<socket_vars, analysis, tvshow, files, reqs, polls, tables, call>>

\* VideoPreprocessor.py 547-557: progress 88, then the image_descriptions row.
T_save_descriptions(t) ==
    /\ threads[t].pc = "save_descriptions"
    /\ status' = update_progress(status, t, 88)
    /\ analysis' = CreateAnalysis(analysis, threads[t].url,
            "image_descriptions", [kind |-> "descriptions"])
    /\ threads' = [threads EXCEPT ![t] =
            SaveIdentification([@ EXCEPT !.prog = 88,
                                   !.comps = @ \cup {"image_descriptions"}])]
    /\ UNCHANGED <<socket_vars, tvshow, files, reqs, polls, tables, call>>

\* VideoPreprocessor.py 560-570: progress 90, then the show_identification row.
T_save_identification(t) ==
    /\ threads[t].pc = "save_identification"
    /\ status' = update_progress(status, t, 90)
    /\ analysis' = CreateAnalysis(analysis, threads[t].url,
            "show_identification", [kind |-> "response"])
    /\ threads' = [threads EXCEPT ![t].pc = "progress92", ![t].prog = 90,
                                  ![t].comps = @ \cup {"show_identification"}]
    /\ UNCHANGED <<socket_vars, tvshow, files, reqs, polls, tables, call>>

\* ------------------------------------------- TMDBAPI.search_and_get_best_match
\* What TMDB answers to the search (a transport failure, no result, a first
\* result without an id, a first result that is no object, a hit) and to the
\* request for the details (the details, or a transport failure).
ContentTypes == {"tv", "movie", "other"}
SearchOutcomes == {"transport_error", "empty", "no_id", "malformed", "hit"}
DetailOutcomes == {"details", "transport_error"}
NoMatch == [raised |-> FALSE, found |-> FALSE, id |-> None]

\* search_tv_show / search_movie 29-107: the results, [] on any exception.
search_results(search) ==
    IF search \in {"transport_error", "empty"} THEN <<>> ELSE <<search>>

\* tmdb_api.py 219-247, the body of the try block.
BestMatchBody(content_type, search, details) ==
    IF content_type \notin {"tv", "movie"} THEN NoMatch
    ELSE IF search_results(search) = <<>> THEN NoMatch
    ELSE IF search_results(search)[1] = "malformed"
    THEN [raised |-> TRUE, found |-> FALSE, id |-> None]
    ELSE IF search_results(search)[1] = "no_id" THEN NoMatch
    ELSE IF details = "transport_error" THEN NoMatch
    ELSE [raised |-> FALSE, found |-> TRUE, id |-> 1]

\* The body without the handler of lines 249-251.
search_and_get_best_match_NoHandler(content_type, search, details) ==
    BestMatchBody(content_type, search, details)

\* TMDBAPI.search_and_get_best_match 198-251: the body, and None on any
\* exception of it.
search_and_get_best_match(content_type, search, details) ==
    IF BestMatchBody(content_type, search, details).raised THEN NoMatch
    ELSE BestMatchBody(content_type, search, details)

\* _process_show_identification_with_tmdb 326-358: what the lookup of a
\* titled TV show or movie ends with: a match (TMDBAPI() could be built and
\* search_and_get_best_match returned details), or no match.
LookupOutcomes ==
    {IF tmdb_key /\ ~tmdb_result.raised /\ tmdb_result.found
     THEN "match" ELSE "no_match" :
        tmdb_key \in BOOLEAN,
        tmdb_result \in {search_and_get_best_match(content_type, search,
                                                   details) :
                            content_type \in {"tv", "movie"},
                            search \in SearchOutcomes,
                            details \in DetailOutcomes}}

\* VideoPreprocessor.py 573-576, then
\* _process_show_identification_with_tmdb 284-358: progress 92; the response
\* is parsed; a TV show or movie with a title is looked up in TMDB: a match
\* with its id, or None (nothing found, or an exception, which
\* search_and_get_best_match and line 357 catch); an exception while parsing
\* makes the function return False ("failed").
T_progress92(t) ==
    /\ threads[t].pc = "progress92"
    /\ status' = update_progress(status, t, 92)
    /\ \E out \in IF threads[t].ident = "json_bad" THEN {"failed"}
                  ELSE IF threads[t].ident = "json_title" THEN LookupOutcomes
                  ELSE {"not_called"} :
          threads' = [threads EXCEPT ![t] =
              IF out = "failed"
              THEN EndScreenshots([@ EXCEPT !.prog = 92, !.tmdb = out])
              ELSE [@ EXCEPT !.prog = 92, !.pc = "save_show", !.tmdb = out]]
    /\ UNCHANGED <<socket_vars, analysis, tvshow, files, reqs, polls, tables, call>>

\* _process_show_identification_with_tmdb 360-372, VideoPreprocessor.py 577-579.
T_save_show(t) ==
    /\ threads[t].pc = "save_show"
    /\ tvshow' = CreateShow(tvshow, threads[t].url,
            threads[t].ident = "json_title",
            IF threads[t].tmdb = "match" THEN 1 ELSE None)
    /\ threads' = [threads EXCEPT ![t] =
            EndScreenshots([@ EXCEPT !.comps = @ \cup {"tmdb_enrichment"}])]
    /\ UNCHANGED <<socket_vars, status, analysis, files, reqs, polls, tables, call>>

\* A cleanup after which preprocess_youtube_url reports a failure.
T_cleanup_ReportsFailure(t) ==
    /\ threads[t].pc = "cleanup"
    /\ status' = update_progress(status, t, 95)
    /\ files' = files \ {<<Vid(t), k>> : k \in FileKinds}
    /\ threads' = [threads EXCEPT ![t] =
            Return([@ EXCEPT !.prog = 95], FALSE,
                   [kind |-> "processed", comps |-> @.comps, errs |-> @.errs])]
    /\ UNCHANGED <<socket_vars, analysis, tvshow, reqs, polls, tables, call>>

\* VideoPreprocessor.py 590-601: progress 95, then _cleanup_generated_files:
\* every audio, screenshot and transcript file of the video id is removed;
\* preprocess_youtube_url returns True with the summary.
T_cleanup(t) ==
    /\ threads[t].pc = "cleanup"
    /\ status' = update_progress(status, t, 95)
    /\ files' = files \ {<<Vid(t), k>> : k \in FileKinds}
    /\ threads' = [threads EXCEPT ![t] =
            Return([@ EXCEPT !.prog = 95], TRUE,
                   [kind |-> "processed", comps |-> @.comps, errs |-> @.errs])]
    /\ UNCHANGED <<socket_vars, analysis, tvshow, reqs, polls, tables, call>>

\* routes.py 316-321: the terminal write.  NOW() is the run's own stamp.
T_final(t) ==
    /\ threads[t].pc = "final"
    /\ status' = IF threads[t].ret = "ok"
                 THEN UpdateStatus(status, threads[t].url, "completed", 100,
                                   NoMessage, t)
                 ELSE UpdateStatus(status, threads[t].url, "failed", 0,
                                   threads[t].msg, t)
    /\ threads' = [threads EXCEPT ![t].pc = "done",
            ![t].prog = IF threads[t].ret = "ok" THEN 100 ELSE @,
            ![t].result = IF threads[t].ret = "ok" THEN "completed" ELSE "failed"]
    /\ UNCHANGED <<socket_vars, analysis, tvshow, files, reqs, polls, tables, call>>

ThreadStep(t) ==
    \/ T_status10(t) \/ T_status20(t) \/ T_progress30(t)
    \/ T_progress35(t) \/ T_progress40(t)
    \/ T_extract_transcript(t) \/ T_save_transcript(t)
    \/ T_extract_audio(t) \/ T_a2t_upload(t) \/ T_a2t_sleep(t)
    \/ T_a2t_get_file(t) \/ T_a2t_generate(t) \/ T_save_audio_transcript(t)
    \/ T_extract_screenshot(t)
    \/ T_describe_glob(t) \/ T_describe80(t)
    \/ T_describe85(t) \/ T_identify_glob(t) \/ T_identify80(t)
    \/ T_identify85(t)
    \/ T_save_descriptions(t) \/ T_save_identification(t)
    \/ T_progress92(t) \/ T_save_show(t)
    \/ T_cleanup(t) \/ T_final(t)

Next ==
    \/ \E url \in URLs, session_id \in Sessions : ProcessVideoArrive(url, session_id)
    \/ \E r \in Reqs : ProcessVideoCheckStatus(r)
    \/ \E r \in Reqs : ProcessVideoStart(r)
    \/ \E t \in Runs : ThreadStep(t)

Spec == Init /\ [][Next]_vars

\* ------------------------------------------------------------- fairness
\* One Ingest request and the run it starts, with every thread of the
\* process scheduled again and again (threads are daemon threads of one
\* Python process; the interpreter switches between runnable threads).
RunStep(t) == t \in Runs /\ ThreadStep(t)

NextOneRequest ==
    \/ \E url \in URLs, session_id \in Sessions :
          Len(reqs) = 0 /\ ProcessVideoArrive(url, session_id)
    \/ \E r \in Reqs : ProcessVideoCheckStatus(r)
    \/ \E r \in Reqs : ProcessVideoStart(r)
    \/ \E t \in Runs : ThreadStep(t)

FairSpec ==
    /\ Init
    /\ [][NextOneRequest]_vars
    /\ WF_vars(\E r \in Reqs : ProcessVideoCheckStatus(r))
    /\ WF_vars(\E r \in Reqs : ProcessVideoStart(r))
    /\ \A t \in 1..MaxReq : WF_vars(RunStep(t))

\* ------------------------------------------- GET /video/status/<video_url>
\* A poll handler is done when it has returned its JSON response: `row`
\* says whether VideoProcessingStatus.get_by_video_url found a row, `resp`,
\* `progress` and `error_message` are the fields of the response.
PollResponded(p, resp, progress, error_message) ==
    [p EXCEPT !.pc = "done", !.resp = resp, !.progress = progress,
              !.error_message = error_message]

\* routes.py 344-349: the request arrives and the status row is read; a row
\* is returned as it is.
GetStatusReadRow(url) ==
    /\ Len(polls) < MaxPoll
    /\ LET row == status[url]
           p == [url |-> url, pc |-> "check_analysis", row |-> row.present,
                 resp |-> "", progress |-> 0, error_message |-> NoMessage]
       IN  polls' = Append(polls,
                IF row.present
                THEN PollResponded(p, row.status, row.progress,
                                   row.error_message)
                ELSE p)
    /\ UNCHANGED <<socket_vars, status, analysis, tvshow, files, reqs, threads, tables, call>>

\* routes.py 351-365: without a status row, VideoAnalysis.get_by_video_url
\* decides between 'completed' (100) and 'not_started' (0).
GetStatusReadAnalysis(p) ==
    /\ polls[p].pc = "check_analysis"
    /\ polls' = [polls EXCEPT ![p] =
            IF AnalysisRows(analysis, polls[p].url) # {}
            THEN PollResponded(@, "completed", 100, NoMessage)
            ELSE PollResponded(@, "not_started", 0, NoMessage)]
    /\ UNCHANGED <<socket_vars, status, analysis, tvshow, files, reqs, threads, tables, call>>

\* What process_video answers for the key when it runs without another
\* writer in between (routes.py 275-337).
IngestAnswer(url) ==
    IF AnalysisRows(analysis, url) # {} THEN "completed"
    ELSE IF status[url].present
            /\ status[url].status \in {"pending", "processing"}
         THEN status[url].status
         ELSE "pending"

\* One Ingest request, its run, and status polls arriving at any time.
NextPoll ==
    \/ \E url \in URLs, session_id \in Sessions :
          Len(reqs) = 0 /\ ProcessVideoArrive(url, session_id)
    \/ \E r \in Reqs : ProcessVideoCheckStatus(r)
    \/ \E r \in Reqs : ProcessVideoStart(r)
    \/ \E t \in Runs : ThreadStep(t)
    \/ \E url \in URLs : GetStatusReadRow(url)
    \/ \E p \in DOMAIN polls : GetStatusReadAnalysis(p)

PollSpec == Init /\ [][NextPoll]_vars

\* ------------------------------------------------- the stores as tables
\* The store calls as SQL on tables that are sets of rows.  A call issued
\* directly (not through the pipeline) takes the number of the call as its
\* NOW() and as the uuid4 it generates; the same call is applied to the
\* pipeline's view of the store (status, analysis, tvshow) as well.
StoreKeys == {u \in URLs : u.form \in {"watch", "other"} /\ u.id <= 1}
StoreSessions == {"s1", "s2"}
SomeMessage ==
    [kind |-> "none_processed", comps |-> {}, errs |-> {"no_screenshots"}]

\* An INSERT that ignores the conflict target and always adds a row.
VideoProcessingStatus_create_PlainInsert(rows, id, video_url, session_id, st, now) ==
    rows \cup {[id |-> id, video_url |-> video_url, session_id |-> session_id,
                status |-> st, progress |-> 0,
                error_message |-> NoMessage, started_at |-> now,
                completed_at |-> None]}

\* VideoProcessingStatus.create: INSERT ... ON CONFLICT (video_url) DO UPDATE
\* SET status, session_id, started_at.
VideoProcessingStatus_create(rows, id, video_url, session_id, st, now) ==
    IF \E r \in rows : r.video_url = video_url
    THEN {IF r.video_url = video_url
          THEN [r EXCEPT !.status = st, !.session_id = session_id,
                         !.started_at = now]
          ELSE r : r \in rows}
    ELSE rows \cup {[id |-> id, video_url |-> video_url,
                     session_id |-> session_id, status |-> st,
                     progress |-> 0, error_message |-> NoMessage,
                     started_at |-> now, completed_at |-> None]}

\* An UPDATE whose WHERE clause is missing.
VideoProcessingStatus_update_status_NoWhere(rows, video_url, st, progress, error_message, now) ==
    {IF st = "completed"
     THEN [r EXCEPT !.status = st, !.progress = progress,
                    !.completed_at = now]
     ELSE IF st = "failed"
     THEN [r EXCEPT !.status = st, !.error_message = error_message,
                    !.completed_at = now]
     ELSE [r EXCEPT !.status = st, !.progress = progress] : r \in rows}

\* VideoProcessingStatus.update_status: one of three UPDATE statements,
\* each WHERE video_url = :video_url.
VideoProcessingStatus_update_status(rows, video_url, st, progress, error_message, now) ==
    {IF r.video_url # video_url THEN r
     ELSE IF st = "completed"
     THEN [r EXCEPT !.status = st, !.progress = progress,
                    !.completed_at = now]
     ELSE IF st = "failed"
     THEN [r EXCEPT !.status = st, !.error_message = error_message,
                    !.completed_at = now]
     ELSE [r EXCEPT !.status = st, !.progress = progress] : r \in rows}

\* VideoProcessingStatus.get_by_video_url on the table: fetchone().
StatusRowsOf(rows, video_url) == {r \in rows : r.video_url = video_url}

SameCall(c1, c2) ==
    /\ c1.op = c2.op
    /\ [c1 EXCEPT !.n = 0, !.retry = FALSE] = [c2 EXCEPT !.n = 0, !.retry = FALSE]

CallCreateStatus(video_url, session_id) ==
    /\ call.n < MaxCalls
    /\ LET now == call.n + 1
           c == [n |-> now, op |-> "create", video_url |-> video_url,
                 session_id |-> session_id, status |-> "pending",
                 progress |-> 0, error_message |-> NoMessage,
                 retry |-> FALSE]
       IN  /\ tables' = [tables EXCEPT !.status =
                  VideoProcessingStatus_create(@, now, video_url, session_id,
                                               "pending", now)]
           /\ status' = CreateStatus(status, video_url, session_id,
                                     "pending", now)
           /\ call' = [c EXCEPT !.retry = SameCall(call, c)]
    /\ UNCHANGED <<socket_vars, analysis, tvshow, files, reqs, threads, polls>>

CallUpdateStatus(video_url, st, progress, error_message) ==
    /\ call.n < MaxCalls
    /\ LET now == call.n + 1
           c == [n |-> now, op |-> "update_status", video_url |-> video_url,
                 session_id |-> "", status |-> st, progress |-> progress,
                 error_message |-> error_message, retry |-> FALSE]
       IN  /\ tables' = [tables EXCEPT !.status =
                  VideoProcessingStatus_update_status(@, video_url, st,
                      progress, error_message, now)]
           /\ status' = UpdateStatus(status, video_url, st, progress,
                                     error_message, now)
           /\ call' = [c EXCEPT !.retry = SameCall(call, c)]
    /\ UNCHANGED <<socket_vars, analysis, tvshow, files, reqs, threads, polls>>

\* Any sequence of at most MaxCalls writes to video_processing_status.
StatusStoreNext ==
    \/ \E video_url \in StoreKeys, session_id \in StoreSessions :
          CallCreateStatus(video_url, session_id)
    \/ \E video_url \in StoreKeys, st \in {"processing", "completed", "failed"},
          progress \in {10, 100}, error_message \in {NoMessage, SomeMessage} :
          CallUpdateStatus(video_url, st, progress, error_message)

StatusStoreSpec == Init /\ [][StatusStoreNext]_vars

\* The pipeline's view of video_processing_status is the table read by key.
StatusViewAgrees ==
    \A u \in URLs :
        IF status[u].present
        THEN StatusRowsOf(tables.status, u) =
                {[id |-> status[u].id, video_url |-> u,
                  session_id |-> status[u].session_id,
                  status |-> status[u].status,
                  progress |-> status[u].progress,
                  error_message |-> status[u].error_message,
                  started_at |-> status[u].started_at,
                  completed_at |-> status[u].completed_at]}
        ELSE StatusRowsOf(tables.status, u) = {}

\* An INSERT into video_analysis that ignores the conflict target.
VideoAnalysis_create_PlainInsert(rows, id, video_id, model_type, model_output, now) ==
    rows \cup {[id |-> id, video_id |-> video_id, model_type |-> model_type,
                model_output |-> model_output, timestamp |-> now]}

\* VideoAnalysis.create: INSERT ... ON CONFLICT (video_id, model_type)
\* DO UPDATE SET model_output, timestamp.
VideoAnalysis_create(rows, id, video_id, model_type, model_output, now) ==
    IF \E r \in rows : r.video_id = video_id /\ r.model_type = model_type
    THEN {IF r.video_id = video_id /\ r.model_type = model_type
          THEN [r EXCEPT !.model_output = model_output, !.timestamp = now]
          ELSE r : r \in rows}
    ELSE rows \cup {[id |-> id, video_id |-> video_id,
                     model_type |-> model_type,
                     model_output |-> model_output, timestamp |-> now]}

\* TVShowInfo.create: INSERT ... ON CONFLICT (video_url) DO UPDATE SET the
\* identity and catalog columns and updated_at.
TVShowInfo_create(rows, id, video_url, title, tmdb_id, now) ==
    IF \E r \in rows : r.video_url = video_url
    THEN {IF r.video_url = video_url
          THEN [r EXCEPT !.title = title, !.tmdb_id = tmdb_id,
                         !.updated_at = now]
          ELSE r : r \in rows}
    ELSE rows \cup {[id |-> id, video_url |-> video_url, title |-> title,
                     tmdb_id |-> tmdb_id, created_at |-> now,
                     updated_at |-> None]}

\* The payloads the pipeline stores under a modality.
Payloads == {[kind |-> "captions"], [kind |-> "speech"]}

CallCreateAnalysis(video_id, model_type, model_output) ==
    /\ call.n < MaxCalls
    /\ LET now == call.n + 1
       IN  /\ tables' = [tables EXCEPT !.analysis =
                  VideoAnalysis_create(@, now, video_id, model_type,
                                       model_output, now)]
           /\ analysis' = CreateAnalysis(analysis, video_id, model_type,
                                         model_output)
           /\ call' = [n |-> now, op |-> "analysis_create",
                       video_id |-> video_id, model_type |-> model_type,
                       model_output |-> model_output, retry |-> FALSE]
    /\ UNCHANGED <<socket_vars, status, tvshow, files, reqs, threads, polls>>

CallCreateShow(video_url, title, tmdb_id) ==
    /\ call.n < MaxCalls
    /\ LET now == call.n + 1
       IN  /\ tables' = [tables EXCEPT !.tvshow =
                  TVShowInfo_create(@, now, video_url, title, tmdb_id, now)]
           /\ tvshow' = CreateShow(tvshow, video_url, title, tmdb_id)
           /\ call' = [n |-> now, op |-> "show_create",
                       video_url |-> video_url, title |-> title,
                       tmdb_id |-> tmdb_id, retry |-> FALSE]
    /\ UNCHANGED <<socket_vars, status, analysis, files, reqs, threads, polls>>

\* Any sequence of at most MaxCalls writes to video_analysis and
\* tv_show_info, for any keys: the writes of concurrent runs, each one
\* transaction, in the order they commit.
RecordStoreNext ==
    \/ \E video_id \in StoreKeys, model_type \in ModelTypes,
          model_output \in Payloads :
          CallCreateAnalysis(video_id, model_type, model_output)
    \/ \E video_url \in StoreKeys, title \in BOOLEAN, tmdb_id \in {None, 1} :
          CallCreateShow(video_url, title, tmdb_id)

RecordStoreSpec == Init /\ [][RecordStoreNext]_vars

\* ------------------------------------------- _parse_transcript_to_json
\* A line of the transcript file, stripped: `bracket` says that it starts
\* with '[' and holds a ']'; `parts` is what is between the two, split at
\* ':', a part being a number or NaN (text int() rejects); `text` is what
\* follows the ']'.
NaN == -1
MaxLines == 3      \* lines of a transcript file
Lines ==
    {[bracket |-> FALSE, parts |-> <<>>, text |-> "a"],        \* a
     [bracket |-> TRUE, parts |-> <<0, 1>>, text |-> "b"],     \* [00:01] b
     [bracket |-> TRUE, parts |-> <<1, 0>>, text |-> "c"],     \* [01:00] c
     [bracket |-> TRUE, parts |-> <<NaN>>, text |-> "d"]}      \* [Music] d
Transcripts == UNION {[1..n -> Lines] : n \in 0..MaxLines}

\* int(time_parts[0]) * 60 + int(time_parts[1]) raises ValueError on a part
\* that is no number and IndexError when there is no second part.
Raises(line) ==
    \/ Len(line.parts) < 2
    \/ line.parts[1] = NaN
    \/ line.parts[2] = NaN

\* The loop at lines 51-66 from line i on, acc being transcript_json; the
\* try block encloses the loop, so an exception ends it (lines 67-68) and
\* what was appended so far is returned (line 70).
RECURSIVE ParseFrom(_, _, _)
ParseFrom(lines, i, acc) ==
    IF i > Len(lines) THEN acc
    ELSE IF ~lines[i].bracket THEN ParseFrom(lines, i + 1, acc)
    ELSE IF Raises(lines[i]) THEN acc
    ELSE ParseFrom(lines, i + 1,
            Append(acc, [timestamp |-> lines[i].parts,
                         seconds |-> lines[i].parts[1] * 60
                                        + lines[i].parts[2],
                         text |-> lines[i].text]))

parse_transcript_to_json(lines) == ParseFrom(lines, 1, <<>>)

CallParseTranscript(lines) ==
    /\ call.n < MaxCalls
    /\ call' = [n |-> call.n + 1, op |-> "parse_transcript", input |-> lines,
                output |-> parse_transcript_to_json(lines), retry |-> FALSE]
    /\ UNCHANGED <<socket_vars, status, analysis, tvshow, files, reqs, threads, polls,
                   tables>>

ParseNext == \E lines \in Transcripts : CallParseTranscript(lines)

ParseSpec == Init /\ [][ParseNext]_vars

\* ------------------------------------------- extract_and_save_screenshot
\* A stream is abstracted to whether cv2.VideoCapture opens it, its frame
\* rate and its duration in seconds.  The rate is fps / FpsDen frames per
\* second (0 when CAP_PROP_FPS cannot be read), so that rates such as 29.97
\* have their like; cap.read() returns floor(duration * rate) frames.
MaxInterval == 3   \* seconds between two screenshots
MaxDuration == 7   \* seconds of video
MaxFps == 4        \* frame rate, in units of 1 / FpsDen frames per second
FpsDen == 3
Intervals == 2..MaxInterval
Durations == MaxInterval..MaxDuration
\* Unreadable, or at least one frame per interval.
FrameRates == {0} \cup 2..MaxFps

FrameCount(fps, duration) == (duration * fps) \div FpsDen

\* screenshot_interval = int(fps * interval)
ScreenshotInterval(fps, interval) == (fps * interval) \div FpsDen

\* Python's round(num / den): to the nearest integer, ties to even.
Round(num, den) ==
    LET q == num \div den
        r == num % den
    IN  IF 2 * r < den THEN q
        ELSE IF 2 * r > den THEN q + 1
        ELSE IF q % 2 = 0 THEN q ELSE q + 1

\* YoutubeExtractor.py 230-246: the seconds in the names of the files the
\* loop writes, round(screenshot_count / fps) for every frame whose index
\* is a multiple of screenshot_interval.
SavedScreenshots(fps, duration, interval) ==
    {Round(screenshot_count * FpsDen, fps) :
        screenshot_count \in
            {c \in 0..(FrameCount(fps, duration) - 1) :
                c % ScreenshotInterval(fps, interval) = 0}}

\* extract_and_save_screenshot 186-251: the value returned and the files
\* written; with screenshot_interval = 0 the modulus of line 235 raises
\* ZeroDivisionError on the first frame.
extract_and_save_screenshot(opened, fps, duration, interval) ==
    IF ~opened \/ fps = 0
    THEN [ret |-> FALSE, raised |-> FALSE, written |-> {}]
    ELSE IF FrameCount(fps, duration) = 0
    THEN [ret |-> TRUE, raised |-> FALSE, written |-> {}]
    ELSE IF ScreenshotInterval(fps, interval) = 0
    THEN [ret |-> FALSE, raised |-> TRUE, written |-> {}]
    ELSE [ret |-> TRUE, raised |-> FALSE,
          written |-> SavedScreenshots(fps, duration, interval)]

CallExtractScreenshot(opened, fps, duration, interval) ==
    /\ call.n < MaxCalls
    /\ call' = [n |-> call.n + 1, op |-> "extract_and_save_screenshot",
                opened |-> opened, fps |-> fps, duration |-> duration,
                interval |-> interval,
                output |-> extract_and_save_screenshot(opened, fps, duration,
                                                       interval),
                retry |-> FALSE]
    /\ UNCHANGED <<socket_vars, status, analysis, tvshow, files, reqs, threads, polls,
                   tables>>

ScreenshotNext ==
    \E opened \in BOOLEAN, fps \in FrameRates, duration \in Durations,
       interval \in Intervals :
        CallExtractScreenshot(opened, fps, duration, interval)

ScreenshotSpec == Init /\ [][ScreenshotNext]_vars

\* -------------------------------------------------- describe_screenshots
\* screenshot_files is the sorted list of the key's screenshots, a file being
\* named by the second it was taken at (…_screenshot_0030.jpg is 30).  The
\* response of images2text is abstracted to what the parsing looks at:
\* `bracketed` (re.search(r'\[.*\]') matches), `valid` (json.loads accepts
\* the match), `array` (the parsed elements: an object with a description,
\* an object without one, or a number) and `parts` (the number of parts the
\* split of the fallback yields).
MaxFrames == 3     \* screenshots of a video
FrameInterval == 10
\* sorted(glob.glob(...)): the names hold the second in four digits, so the
\* order of the names is the order of the seconds.
RECURSIVE Sorted(_)
Sorted(S) ==
    IF S = {} THEN <<>>
    ELSE LET m == CHOOSE x \in S : \A y \in S : x <= y
         IN  <<m>> \o Sorted(S \ {m})

\* The files extract_and_save_screenshot(interval=10) leaves for a stream.
ScreenshotFiles ==
    {fs \in {Sorted(SavedScreenshots(fps, duration, FrameInterval)) :
                fps \in 1..MaxFps,
                duration \in 1..(FrameInterval * MaxFrames)} :
        Len(fs) \in 1..MaxFrames}
Elements == {"described", "undescribed", "number"}
Responses ==
    {[bracketed |-> FALSE, valid |-> FALSE, array |-> <<>>, parts |-> k] :
        k \in 0..MaxFrames}
    \cup {[bracketed |-> TRUE, valid |-> FALSE, array |-> <<>>, parts |-> 0]}
    \cup {[bracketed |-> TRUE, valid |-> TRUE, array |-> a, parts |-> 0] :
            a \in UNION {[1..n -> Elements] : n \in 0..MaxFrames}}

\* f"{minutes:02d}:{seconds_remainder:02d}"
Timestamp(seconds) == <<seconds \div 60, seconds % 60>>

DescriptionEntry(seconds, filename, description) ==
    [timestamp |-> Timestamp(seconds), seconds |-> seconds,
     filename |-> filename, description |-> description]

\* A fallback that gives up and adds nothing.
UltimateFallback_GivesUp(screenshot_files, descriptions) == descriptions

\* Lines 231-245: the handler of the parsing error appends one entry per
\* file, at 10-second steps, to what `descriptions` holds by then.
UltimateFallback(screenshot_files, descriptions) ==
    descriptions \o
        [i \in 1..Len(screenshot_files) |->
            DescriptionEntry((i - 1) * 10, screenshot_files[i],
                             "could_not_process")]

\* Lines 169-196: the loop over the files with the parsed array, from file
\* i on; `"description" in parsed_descriptions[i]` raises TypeError on a
\* number, which the handler at line 231 catches.
RECURSIVE FromParsed(_, _, _, _)
FromParsed(screenshot_files, array, i, descriptions) ==
    IF i > Len(screenshot_files) THEN descriptions
    ELSE IF i <= Len(array) /\ array[i] = "number"
    THEN UltimateFallback(screenshot_files, descriptions)
    ELSE FromParsed(screenshot_files, array, i + 1,
            Append(descriptions,
                DescriptionEntry(screenshot_files[i], screenshot_files[i],
                    IF i <= Len(array) /\ array[i] = "described"
                    THEN "described" ELSE "not_available")))

\* describe_screenshots, given a response: the `descriptions` it returns.
describe_screenshots(screenshot_files, response) ==
    IF response.bracketed
    THEN IF response.valid
         THEN FromParsed(screenshot_files, response.array, 1, <<>>)
         ELSE UltimateFallback(screenshot_files, <<>>)
    ELSE [i \in 1..Len(screenshot_files) |->
            DescriptionEntry(screenshot_files[i], screenshot_files[i],
                IF i <= response.parts THEN "part" ELSE "not_available")]

CallDescribeScreenshots(screenshot_files, response) ==
    /\ call.n < MaxCalls
    /\ call' = [n |-> call.n + 1, op |-> "describe_screenshots",
                input |-> screenshot_files, response |-> response,
                output |-> describe_screenshots(screenshot_files, response),
                retry |-> FALSE]
    /\ UNCHANGED <<socket_vars, status, analysis, tvshow, files, reqs, threads, polls,
                   tables>>

DescribeNext ==
    \E screenshot_files \in ScreenshotFiles, response \in Responses :
        CallDescribeScreenshots(screenshot_files, response)

DescribeSpec == Init /\ [][DescribeNext]_vars

\* --------------------------------- the Metadata Enricher called directly
CallSearchAndGetBestMatch(content_type, search, details) ==
    /\ call.n < MaxCalls
    /\ call' = [n |-> call.n + 1, op |-> "search_and_get_best_match",
                content_type |-> content_type, search |-> search,
                details |-> details,
                output |-> search_and_get_best_match(content_type, search,
                                                     details),
                retry |-> FALSE]
    /\ UNCHANGED <<socket_vars, status, analysis, tvshow, files, reqs, threads, polls,
                   tables>>

\* One Ingest request and its run, and direct calls of the enricher.
EnrichNext ==
    \/ \E url \in URLs, session_id \in Sessions :
          Len(reqs) = 0 /\ ProcessVideoArrive(url, session_id)
    \/ \E r \in Reqs : ProcessVideoCheckStatus(r)
    \/ \E r \in Reqs : ProcessVideoStart(r)
    \/ \E t \in Runs : ThreadStep(t)
    \/ \E content_type \in ContentTypes, search \in SearchOutcomes,
          details \in DetailOutcomes :
          CallSearchAndGetBestMatch(content_type, search, details)

EnrichSpec == Init /\ [][EnrichNext]_vars

\* ----------------------------------- the frame stage with refused writes
\* VideoPreprocessor.py 547-553, 586-587: progress 88, then
\* VideoAnalysis.create raises (the store refuses the write); the exception
\* leaves the frame stage through the handler of line 586.
T_save_descriptions_raise(t) ==
    /\ threads[t].pc = "save_descriptions"
    /\ status' = update_progress(status, t, 88)
    /\ threads' = [threads EXCEPT ![t] =
            Overall([@ EXCEPT !.prog = 88,
                              !.errs = @ \cup {"screenshot_error"}])]
    /\ UNCHANGED <<socket_vars, analysis, tvshow, files, reqs, polls, tables, call>>

\* VideoPreprocessor.py 560-567, 586-587: progress 90, then
\* VideoAnalysis.create raises.
T_save_identification_raise(t) ==
    /\ threads[t].pc = "save_identification"
    /\ status' = update_progress(status, t, 90)
    /\ threads' = [threads EXCEPT ![t] =
            Overall([@ EXCEPT !.prog = 90,
                              !.errs = @ \cup {"screenshot_error"}])]
    /\ UNCHANGED <<socket_vars, analysis, tvshow, files, reqs, polls, tables, call>>

\* One Ingest request and its run, with a store that may refuse the writes
\* of the frame stage.
FrameStageNext ==
    \/ \E url \in URLs, session_id \in Sessions :
          Len(reqs) = 0 /\ ProcessVideoArrive(url, session_id)
    \/ \E r \in Reqs : ProcessVideoCheckStatus(r)
    \/ \E r \in Reqs : ProcessVideoStart(r)
    \/ \E t \in Runs : ThreadStep(t)
    \/ \E t \in Runs : T_save_descriptions_raise(t)
    \/ \E t \in Runs : T_save_identification_raise(t)

FrameStageSpec == Init /\ [][FrameStageNext]_vars

\* ------------------------------------------------ Ingest after a run ended
\* Requests for a key one after the other: the next POST /video/process
\* arrives once every earlier request is answered and every earlier run has
\* written its terminal status.
ProcessVideoArriveAfterRuns(url, session_id) ==
    /\ \A r \in Reqs : reqs[r].pc = "done"
    /\ \A t \in Runs : threads[t].pc = "done"
    /\ ProcessVideoArrive(url, session_id)

NextRetry ==
    \/ \E url \in URLs, session_id \in Sessions :
          ProcessVideoArriveAfterRuns(url, session_id)
    \/ \E r \in Reqs : ProcessVideoCheckStatus(r)
    \/ \E r \in Reqs : ProcessVideoStart(r)
    \/ \E t \in Runs : ThreadStep(t)

RetrySpec == Init /\ [][NextRetry]_vars

\* ------------------------------- extract_and_save_transcript, then the parse
\* A caption item: its start in half seconds (item.start is a float) and its
\* text as the pieces its line breaks separate, a piece being plain words or
\* a bracketed note such as "[Music]".
MaxItems == 2      \* caption items of a track
MaxPieces == 2     \* pieces of a caption text
Starts == {0, 3, 123, 7201}    \* 0 s, 1.5 s, 61.5 s, 3600.5 s
Pieces == {"words", "[Music]"}
CaptionTexts == UNION {[1..n -> Pieces] : n \in 1..MaxPieces}
CaptionItems == [start : Starts, text : CaptionTexts]
CaptionTracks == UNION {[1..n -> CaptionItems] : n \in 0..MaxItems}

\* A line of the file that holds only a piece of a caption text: it starts
\* with '[' and holds ']' when the piece is a bracketed note, and then what
\* is between the brackets is no MM:SS.
PieceLine(piece) ==
    IF piece = "[Music]"
    THEN [bracket |-> TRUE, parts |-> <<NaN>>, text |-> ""]
    ELSE [bracket |-> FALSE, parts |-> <<>>, text |-> piece]

\* YoutubeExtractor.py 136-138: divmod(int(item.start), 60) and
\* f"[{timestamp}] {item.text}"; line 139 joins the items with "\n", so a
\* line break inside a text starts a new line of the file.
FormattedLines(item) ==
    LET whole == item.start \div 2
    IN  <<[bracket |-> TRUE, parts |-> <<whole \div 60, whole % 60>>,
           text |-> item.text[1]]>>
        \o [j \in 1..(Len(item.text) - 1) |-> PieceLine(item.text[j + 1])]

RECURSIVE FullTranscript(_)
FullTranscript(transcript_data) ==
    IF transcript_data = <<>> THEN <<>>
    ELSE FormattedLines(Head(transcript_data))
            \o FullTranscript(Tail(transcript_data))

\* extract_and_save_transcript writes the file, _parse_transcript_to_json
\* reads it (VideoPreprocessor.py 465-476).
CallWriteThenParse(transcript_data) ==
    /\ call.n < MaxCalls
    /\ call' = [n |-> call.n + 1, op |-> "write_then_parse",
                input |-> transcript_data,
                written |-> FullTranscript(transcript_data),
                output |-> parse_transcript_to_json(
                               FullTranscript(transcript_data)),
                retry |-> FALSE]
    /\ UNCHANGED <<socket_vars, status, analysis, tvshow, files, reqs, threads, polls,
                   tables>>

RoundTripNext ==
    \E transcript_data \in CaptionTracks : CallWriteThenParse(transcript_data)

RoundTripSpec == Init /\ [][RoundTripNext]_vars

\* ------------------------------------------------------- socket_events.py
\* The handlers of init_socket_events; request.sid is the connection's id.
\* A store call of a handler answers or raises; Faults names the call that
\* raises ("none": no call does).
RequestedIds == SessionIds \cup {"x"}    \* "x": no row in sessions
JoinFaults == {"none", "get_by_id", "add_user", "get_session_users"}
DisconnectFaults ==
    {"none", "remove_user", "get_session_users", "deactivate_empty_sessions"}

\* d[k] = v and del d[k] on a Python dict.
Put(d, k, v) == [x \in DOMAIN d \cup {k} |-> IF x = k THEN v ELSE d[x]]
Del(d, k) == [x \in DOMAIN d \ {k} |-> d[x]]

\* emit(event, room=room [, include_self=False]): delivered to the
\* connections that are in the room.
Members(room) == {u \in SIDs : <<room, u>> \in rooms}
Emit(event, room, by, to) ==
    [event |-> event, room |-> room, by |-> by, to |-> to]
\* emit('error', ...) without a room goes to the sender.
EmitError(u) == Emit("error", "", u, {u})

\* Session.get_by_id: the active row of the id, or None.
Session_get_by_id(session_id) ==
    IF session_id \in SessionIds /\ sessions[session_id].active
    THEN sessions[session_id] ELSE [is_master |-> FALSE, active |-> FALSE]

\* Session.deactivate_empty_sessions, given the rows of session_users.
Session_deactivate_empty_sessions(rows) ==
    [s \in SessionIds |->
        IF \E u \in SIDs : <<s, u>> \in rows THEN sessions[s]
        ELSE [sessions[s] EXCEPT !.active = FALSE]]

\* handle_connect (lines 15-17).
handle_connect(u) ==
    /\ connections[u] = "unused"
    /\ connections' = [connections EXCEPT ![u] = "connected"]
    /\ emitted' = {}
    /\ UNCHANGED <<user_sessions, session_masters, session_users, sessions,
                   rooms>>
    /\ UNCHANGED <<status, analysis, tvshow, files, reqs, threads, polls,
                   tables, call>>

\* Lines 33-34: `if is_master and session_id in session_masters: del ...`.
LeaveMasters(u, info) ==
    IF info.is_master /\ info.session_id \in DOMAIN session_masters
    THEN Del(session_masters, info.session_id) ELSE session_masters

\* handle_disconnect (lines 19-61).  Socket.IO takes the connection out of
\* its rooms.  An exception leaves the rest of the try block undone.
handle_disconnect(u, fault) ==
    /\ connections[u] = "connected"
    /\ connections' = [connections EXCEPT ![u] = "disconnected"]
    /\ rooms' = {m \in rooms : m[2] # u}
    /\ IF u \notin DOMAIN user_sessions \/ fault = "remove_user"
       THEN /\ emitted' = {}
            /\ UNCHANGED <<user_sessions, session_masters, session_users,
                           sessions>>
       ELSE LET info == user_sessions[u]
                session_id == info.session_id
                rows == session_users \ {<<session_id, u>>}
                others == Members(session_id) \ {u}
            IN  /\ session_users' = rows
                /\ session_masters' = LeaveMasters(u, info)
                /\ emitted' =
                     (IF session_masters' # session_masters
                      THEN {Emit("master_disconnected", session_id, u, others)}
                      ELSE {})
                     \cup {Emit("user_left", session_id, u, others)}
                /\ user_sessions' = IF fault = "get_session_users"
                                    THEN user_sessions
                                    ELSE Del(user_sessions, u)
                /\ sessions' = IF fault = "none"
                               THEN Session_deactivate_empty_sessions(rows)
                               ELSE sessions
    /\ UNCHANGED <<status, analysis, tvshow, files, reqs, threads, polls,
                   tables, call>>

\* handle_join_session (lines 63-127), the request carrying a session id.
handle_join_session(u, session_id, is_master, fault) ==
    /\ connections[u] = "connected"
    /\ LET session == Session_get_by_id(session_id)
           masters == IF is_master /\ session.is_master
                      THEN Put(session_masters, session_id, u)
                      ELSE session_masters
       IN  IF fault = "get_by_id" \/ ~session.active
           THEN /\ emitted' = {EmitError(u)}
                /\ UNCHANGED <<user_sessions, session_masters, session_users,
                               rooms>>
           ELSE IF fault = "add_user"
           THEN /\ session_masters' = masters
                /\ emitted' = {EmitError(u)}
                /\ UNCHANGED <<user_sessions, session_users, rooms>>
           ELSE /\ session_masters' = masters
                /\ session_users' = session_users \cup {<<session_id, u>>}
                /\ user_sessions' =
                      Put(user_sessions, u,
                          [session_id |-> session_id, is_master |-> is_master])
                /\ rooms' = rooms \cup {<<session_id, u>>}
                /\ emitted' =
                      {Emit("user_joined", session_id, u,
                            Members(session_id) \cup {u})}
                      \cup IF fault = "get_session_users"
                           THEN {EmitError(u)} ELSE {}
    /\ UNCHANGED <<connections, sessions>>
    /\ UNCHANGED <<status, analysis, tvshow, files, reqs, threads, polls,
                   tables, call>>

\* handle_video_time_update (lines 329-354).
handle_video_time_update(u, session_id) ==
    /\ connections[u] = "connected"
    /\ emitted' =
          IF u \notin DOMAIN user_sessions THEN {EmitError(u)}
          ELSE IF ~user_sessions[u].is_master THEN {EmitError(u)}
          ELSE {Emit("sync_video_time", session_id, u,
                     Members(session_id) \ {u})}
    /\ UNCHANGED <<connections, user_sessions, session_masters,
                   session_users, sessions, rooms>>
    /\ UNCHANGED <<status, analysis, tvshow, files, reqs, threads, polls,
                   tables, call>>

\* handle_request_current_time (lines 356-379): the room of a sid holds the
\* connection of that sid while it is open.
handle_request_current_time(u, session_id) ==
    /\ connections[u] = "connected"
    /\ emitted' =
          IF u \notin DOMAIN user_sessions THEN {EmitError(u)}
          ELSE IF session_id \in DOMAIN session_masters
          THEN LET master_id == session_masters[session_id]
               IN  {Emit("time_requested", "sid", u,
                         IF connections[master_id] = "connected"
                         THEN {master_id} ELSE {})}
          ELSE {EmitError(u)}
    /\ UNCHANGED <<connections, user_sessions, session_masters,
                   session_users, sessions, rooms>>
    /\ UNCHANGED <<status, analysis, tvshow, files, reqs, threads, polls,
                   tables, call>>

\* The handlers with a store that answers every call.
SocketNext ==
    \/ \E u \in SIDs : handle_connect(u)
    \/ \E u \in SIDs : handle_disconnect(u, "none")
    \/ \E u \in SIDs, session_id \in RequestedIds, is_master \in BOOLEAN :
          handle_join_session(u, session_id, is_master, "none")
    \/ \E u \in SIDs, session_id \in RequestedIds :
          handle_video_time_update(u, session_id)
    \/ \E u \in SIDs, session_id \in RequestedIds :
          handle_request_current_time(u, session_id)

SocketSpec == Init /\ [][SocketNext]_vars

\* The handlers with a store whose calls may raise.
SocketFaultNext ==
    \/ \E u \in SIDs : handle_connect(u)
    \/ \E u \in SIDs, fault \in DisconnectFaults : handle_disconnect(u, fault)
    \/ \E u \in SIDs, session_id \in RequestedIds, is_master \in BOOLEAN,
          fault \in JoinFaults :
          handle_join_session(u, session_id, is_master, fault)
    \/ \E u \in SIDs, session_id \in RequestedIds :
          handle_video_time_update(u, session_id)
    \/ \E u \in SIDs, session_id \in RequestedIds :
          handle_request_current_time(u, session_id)

SocketFaultSpec == Init /\ [][SocketFaultNext]_vars

\* --------------------------------------------------------------- claims
Active(t) == threads[t].pc # "done"
Terminal == {"completed", "failed"}
NonTerminal == {"pending", "processing"}

\* C1: for every key at most one background run is active at a time, and an
\* Ingest that arrived while the key's row was pending or processing answers
\* with a pending/processing status and starts no run.
C1_AtMostOneActiveRun ==
    /\ \A t1, t2 \in Runs :
          (t1 # t2 /\ threads[t1].url = threads[t2].url)
              => ~(Active(t1) /\ Active(t2))
    /\ \A r \in Reqs :
          (reqs[r].pc = "done" /\ reqs[r].arr \in NonTerminal)
              => (reqs[r].resp \in NonTerminal /\ reqs[r].started = None)

\* C2: an Ingest for a key of which a run has ended completed answers
\* 'completed' at once, starts no run and changes no store and no file.
EndedCompleted(url) ==
    \E t \in Runs : threads[t].url = url /\ threads[t].result = "completed"

C2_CompletedIngestIsNoOp ==
    [][\A url \in URLs :
          (EndedCompleted(url) /\ Len(reqs') = Len(reqs) + 1
              /\ reqs'[Len(reqs')].url = url)
          => /\ reqs'[Len(reqs')].pc = "done"
             /\ reqs'[Len(reqs')].resp = "completed"
             /\ reqs'[Len(reqs')].started = None
             /\ UNCHANGED <<socket_vars, status, analysis, tvshow, files, threads>>]_vars

C2_Witness ==
    \E r \in Reqs :
        /\ reqs[r].arr = "completed" /\ reqs[r].resp = "completed"
        /\ EndedCompleted(reqs[r].url)

\* C3: the progress values one run writes never decrease.
C3_ProgressNonDecreasing ==
    [][\A t \in Runs : threads'[t].prog >= threads[t].prog]_vars

\* C4: a status row has progress 100 exactly when its status is completed.
C4_Progress100IffCompleted ==
    \A url \in URLs :
        status[url].present
            => (status[url].progress = 100 <=> status[url].status = "completed")

\* C5: a run ends completed exactly when it produced a transcript row or an
\* image_descriptions row.
C5_CompletedIffTranscriptOrFrames ==
    \A t \in Runs :
        threads[t].pc = "done"
            => (threads[t].result = "completed"
                  <=> threads[t].comps \cap
                        {"transcript", "audio_transcription",
                         "image_descriptions"} # {})

\* C6: the status of a row moves pending -> processing -> one terminal
\* status; only the start of a new run leaves a terminal status.
C6_StatusLifecycle ==
    [][\A url \in URLs :
          status'[url].status # status[url].status
            => <<status[url].status, status'[url].status>> \in
                  {<<"", "pending">>, <<"pending", "processing">>,
                   <<"processing", "completed">>, <<"processing", "failed">>,
                   <<"completed", "pending">>, <<"failed", "pending">>}]_vars

\* C7: a row whose status is completed or failed never changes again.
C7_TerminalRowImmutable ==
    [][\A url \in URLs :
          status[url].status \in Terminal => status'[url] = status[url]]_vars

\* C8: every run that was started eventually writes its terminal status.
C8_EveryRunTerminates ==
    \A t \in 1..MaxReq :
        (t \in Runs) ~> (t \in Runs /\ threads[t].pc = "done")

\* C9 (scenario A): captions found, frames extracted, both vision calls
\* answered, the catalog matched: the run ends completed with progress 100,
\* the three analysis rows exist and tv_show_info holds a catalog id.
RunInScenarioA(t) ==
    /\ threads[t].pc = "done"
    /\ "transcript" \in threads[t].comps
    /\ threads[t].shots = "frames"
    /\ threads[t].desc
    /\ threads[t].ident = "json_title"
    /\ threads[t].tmdb = "match"

\* No run of the key has met an outcome outside scenario A.
KeyInScenarioA(url) ==
    \A t \in Runs :
        threads[t].url = url
            => /\ threads[t].pc \notin {"extract_audio", "a2t_upload",
                     "a2t_sleep", "a2t_get_file", "a2t_generate",
                     "save_audio_transcript"}
               /\ "audio_transcription" \notin threads[t].comps
               /\ threads[t].errs \cap {"transcript_audio", "transcript_error"} = {}
               /\ threads[t].msg.kind # "gemini_init"
               /\ threads[t].shots \in {"", "frames"}
               /\ threads[t].ident \in {"", "none", "json_title"}
               /\ threads[t].tmdb \in {"", "match"}

C9_ScenarioA ==
    \A t \in Runs :
        (RunInScenarioA(t) /\ KeyInScenarioA(threads[t].url))
            => /\ threads[t].result = "completed"
               /\ threads[t].prog = 100
               /\ AnalysisRows(analysis, threads[t].url) = ModelTypes
               /\ tvshow[threads[t].url].present
               /\ tvshow[threads[t].url].tmdb_id # None

C9_Witness ==
    \E t \in Runs :
        /\ RunInScenarioA(t) /\ KeyInScenarioA(threads[t].url)
        /\ status[threads[t].url].status = "completed"
        /\ status[threads[t].url].progress = 100

\* C10 (scenario B): no captions, audio extraction failed, frames extracted:
\* the run ends completed, the key has no transcript row, and the run's
\* summary names the transcript/audio failure.
RunInScenarioB(t) ==
    /\ threads[t].pc = "done"
    /\ threads[t].comps \cap {"transcript", "audio_transcription"} = {}
    /\ "transcript_audio" \in threads[t].errs
    /\ threads[t].shots = "frames"

\* No run of the key has met an outcome outside scenario B.
KeyInScenarioB(url) ==
    \A t \in Runs :
        threads[t].url = url
            => /\ threads[t].pc \notin {"save_transcript", "a2t_upload",
                     "a2t_sleep", "a2t_get_file", "a2t_generate",
                     "save_audio_transcript"}
               /\ threads[t].comps \cap {"transcript", "audio_transcription"} = {}
               /\ threads[t].msg.kind # "gemini_init"
               /\ threads[t].shots \in {"", "frames"}

C10_ScenarioB ==
    \A t \in Runs :
        (RunInScenarioB(t) /\ KeyInScenarioB(threads[t].url))
            => /\ threads[t].result = "completed"
               /\ "transcript" \notin AnalysisRows(analysis, threads[t].url)
               /\ "transcript_audio" \in threads[t].msg.errs

\* C11 (scenario C): no captions, the audio fallback failed and frame
\* extraction failed: the run ends failed, the key has no video_analysis row
\* and no tv_show_info row, and the run never ran its cleanup.
TranscriptFailed(t) ==
    /\ threads[t].comps \cap {"transcript", "audio_transcription"} = {}
    /\ threads[t].errs \cap {"transcript_audio", "transcript_error"} # {}

RunInScenarioC(t) ==
    /\ threads[t].pc = "done"
    /\ TranscriptFailed(t)
    /\ threads[t].shots \in {"false", "raise"}

\* No run of the key has met an outcome outside scenario C.
KeyInScenarioC(url) ==
    \A t \in Runs :
        threads[t].url = url
            => /\ threads[t].pc \notin {"save_transcript", "a2t_generate",
                                        "save_audio_transcript"}
               /\ threads[t].comps \cap {"transcript", "audio_transcription"} = {}
               /\ threads[t].shots \in {"", "false", "raise"}

C12_CompletedOnlyWithBoth ==
    [][(Len(reqs') = Len(reqs) + 1
            /\ reqs'[Len(reqs')].resp = "completed")
        => LET url == reqs'[Len(reqs')].url
           IN  /\ {"transcript", "image_descriptions"}
                      \subseteq AnalysisRows(analysis, url)
               /\ status[url].status \notin NonTerminal]_vars

\* C13: a status poll answers with the key's status row when there is one
\* and with not_started when nothing is recorded for the key, its status is
\* one of the five status values, and Ingest gives the status row the same
\* precedence: while the row is pending or processing Ingest answers with
\* the row's status.
PollStatuses == {"not_started", "pending", "processing", "completed", "failed"}

C13_StatusPoll ==
    /\ \A p \in DOMAIN polls :
          polls[p].pc = "done"
              => /\ polls[p].resp \in PollStatuses
                 /\ polls[p].row <=> polls[p].resp # "not_started"
    /\ \A url \in URLs :
          (status[url].present /\ status[url].status \in NonTerminal)
              => IngestAnswer(url) = status[url].status

\* C14: runs of distinct URLs do not share working files: when no other run
\* has the same URL, the cleanup of a run removes only files that run wrote,
\* and the screenshots it finds are the ones it extracted.
Produced(t) ==
    (IF "transcript" \in threads[t].comps
     THEN {<<Vid(t), "transcript">>} ELSE {})
    \cup (IF "audio_transcription" \in threads[t].comps
              \/ "transcript_error" \in threads[t].errs
          THEN {<<Vid(t), "audio">>} ELSE {})
    \cup (IF threads[t].shots = "frames"
          THEN {<<Vid(t), "screenshot">>} ELSE {})

OnlyRunOfItsKey(t) ==
    \A t2 \in Runs \ {t} : threads[t2].url # threads[t].url

C14_FilesPrivateToKey ==
    [][\A t \in Runs :
          OnlyRunOfItsKey(t)
            => /\ (threads[t].pc = "cleanup" /\ threads'[t].pc = "final")
                    => (files \ files') \subseteq Produced(t)
               /\ (threads[t].pc = "describe_glob"
                     /\ threads'[t].pc = "describe80")
                    => threads[t].shots = "frames"]_vars

\* C15: in a run, _cleanup_generated_files comes after every video_analysis
\* and tv_show_info write of the run and before its 'completed' write: the
\* cleanup step finds every row of the run's components stored and writes
\* no row, no row is written once the cleanup is done, and 'completed' is
\* written only after the cleanup.
CleanedUp(t) == threads[t].msg.kind = "processed"

RowsOf(comps) ==
    {m \in ModelTypes :
        \/ m \in comps
        \/ m = "transcript" /\ "audio_transcription" \in comps}

C15_CleanupAfterWritesBeforeCompleted ==
    [][\A t \in Runs :
          threads'[t] # threads[t]
            => /\ threads[t].pc = "cleanup"
                    => /\ RowsOf(threads[t].comps)
                            \subseteq AnalysisRows(analysis, threads[t].url)
                       /\ "tmdb_enrichment" \in threads[t].comps
                            => tvshow[threads[t].url].present
                       /\ analysis' = analysis /\ tvshow' = tvshow
                       /\ status'[threads[t].url].status # "completed"
               /\ (analysis' # analysis \/ tvshow' # tvshow)
                    => ~CleanedUp(t)
               /\ (threads[t].result = "" /\ threads'[t].result = "completed")
                    => CleanedUp(t)]_vars

C15_Witness ==
    \E t \in Runs :
        /\ threads[t].result = "completed" /\ CleanedUp(t)
        /\ {"transcript", "image_descriptions", "tmdb_enrichment"}
              \subseteq threads[t].comps

\* C16: a run reaches _cleanup_generated_files exactly when it ends
\* completed, and a run that ends failed has removed no working file.
C16_CleanupIffCompleted ==
    [][\A t \in Runs :
          threads'[t] # threads[t]
            => /\ ~(files \subseteq files') => threads[t].pc = "cleanup"
               /\ threads'[t].pc = "done"
                    => (CleanedUp(t) <=> threads'[t].result = "completed")
               /\ (threads'[t].pc = "done" /\ threads'[t].result = "failed")
                    => threads'[t].msg.kind # "processed"]_vars

C16_Witness ==
    \E t1, t2 \in Runs :
        /\ threads[t1].result = "failed" /\ ~CleanedUp(t1)
        /\ "no_screenshots" \in threads[t1].errs
        /\ threads[t2].result = "completed" /\ CleanedUp(t2)

\* C17: the terminal write of a run stores the run's summary in the status
\* row when the run ends failed and when it ends completed with errors.
C17_TerminalStatusCarriesSummary ==
    [][\A t \in Runs :
          (threads[t].pc = "final" /\ threads'[t].pc = "done"
              /\ (threads'[t].result = "failed" \/ threads[t].msg.errs # {}))
            => status'[threads[t].url].error_message = threads[t].msg]_vars

\* C18: when the speech-to-text call failed (audio2text returned its error
\* text), the run's next step writes no video_analysis row, does not count a
\* component, and the run has recorded an error.
C18_TransportErrorIsSoftFailure ==
    [][\A t \in Runs :
          (threads[t].stt = "error" /\ threads'[t] # threads[t])
            => /\ analysis' = analysis
               /\ threads'[t].comps = threads[t].comps
               /\ threads'[t].errs # {}]_vars

\* C19: a run ends without having attempted any extraction stage only when
\* no video id could be derived from the URL; a run that did start
\* extracting also attempted the frame extraction.
C19_OnlyIdDerivationAborts ==
    \A t \in Runs :
        threads[t].pc = "done"
            => /\ threads[t].prog < 45 => threads[t].msg.kind = "no_video_id"
               /\ threads[t].prog >= 45 => threads[t].shots # ""

\* C20: a run whose frame extraction could not resolve or open the playable
\* stream (extract_and_save_screenshot returned False) ends failed.
C20_UnresolvedStreamFails ==
    \A t \in Runs :
        (threads[t].pc = "done" /\ threads[t].shots = "false")
            => threads[t].result = "failed"


\* C21: an update_status call with status completed sets status, progress
\* and completed_at of the key's row; with status failed it sets status,
\* error_message and completed_at; with any other status it sets status and
\* progress only and leaves error_message, completed_at and started_at as
\* they were; rows of other keys are left exactly as they were, and no row
\* is added or removed.
C21_UpdateStatusFrame ==
    [][call'.op = "update_status" =>
        /\ Cardinality(tables'.status) = Cardinality(tables.status)
        /\ \A r \in tables.status :
              IF r.video_url # call'.video_url
              THEN r \in tables'.status
              ELSE \E r2 \in tables'.status :
                     /\ r2.video_url = r.video_url
                     /\ r2.id = r.id
                     /\ r2.session_id = r.session_id
                     /\ r2.started_at = r.started_at
                     /\ r2.status = call'.status
                     /\ IF call'.status = "completed"
                        THEN /\ r2.progress = call'.progress
                             /\ r2.completed_at = call'.n
                             /\ r2.error_message = r.error_message
                        ELSE IF call'.status = "failed"
                        THEN /\ r2.error_message = call'.error_message
                             /\ r2.completed_at = call'.n
                             /\ r2.progress = r.progress
                        ELSE /\ r2.progress = call'.progress
                             /\ r2.error_message = r.error_message
                             /\ r2.completed_at = r.completed_at]_vars

\* a failed update of one key's row has been applied next to another key's row
C21_Witness ==
    /\ call.op = "update_status"
    /\ call.status = "failed"
    /\ Cardinality(tables.status) = 2
    /\ \E r \in tables.status :
          /\ r.video_url = call.video_url
          /\ r.status = "failed"
          /\ r.error_message = SomeMessage

\* The contents of the status rows without the values of their timestamps.
Untimed(rows) ==
    {[r EXCEPT !.started_at = 0, !.completed_at = (IF @ = None THEN 0 ELSE 1)] :
        r \in rows}

\* C22: after any sequence of create and update_status calls there is at
\* most one status row per key, and a call that repeats the call before it
\* leaves the rows, timestamps aside, as that call left them.
C22_OneRowPerKeyAndRetryIdempotent ==
    [][/\ \A r1, r2 \in tables'.status :
             r1.video_url = r2.video_url => r1 = r2
       /\ call'.retry => Untimed(tables'.status) = Untimed(tables.status)]_vars

\* a create has been retried for a key while another key has a row too
C22_Witness ==
    /\ call.retry
    /\ call.op = "create"
    /\ Cardinality(tables.status) = 2


\* C23: after any sequence of writes of the pipeline to the analysis and
\* identity stores, for any keys, there is exactly one video_analysis row
\* for each (key, modality) written and none for the others, one
\* tv_show_info row for each key written, each holding the payload of the
\* most recent write for its key; and a write leaves every row of another
\* key or modality, and the other table, exactly as they were.
C23_OneRecordPerKeyLastWriteWins ==
    [][/\ \A u \in URLs, m \in ModelTypes :
            LET rs == {r \in tables'.analysis :
                          r.video_id = u /\ r.model_type = m}
            IN  IF analysis'[u][m] = NoRecord THEN rs = {}
                ELSE /\ Cardinality(rs) = 1
                     /\ \A r \in rs : r.model_output = analysis'[u][m]
       /\ \A u \in URLs :
            LET rs == {r \in tables'.tvshow : r.video_url = u}
            IN  IF ~tvshow'[u].present THEN rs = {}
                ELSE /\ Cardinality(rs) = 1
                     /\ \A r \in rs : /\ r.title = tvshow'[u].title
                                      /\ r.tmdb_id = tvshow'[u].tmdb_id
       /\ call'.op = "analysis_create" =>
            /\ tables'.tvshow = tables.tvshow
            /\ \A r \in tables.analysis \cup tables'.analysis :
                  (r.video_id # call'.video_id
                      \/ r.model_type # call'.model_type)
                  => (r \in tables.analysis /\ r \in tables'.analysis)
            /\ \E r \in tables'.analysis :
                  /\ r.video_id = call'.video_id
                  /\ r.model_type = call'.model_type
                  /\ r.model_output = call'.model_output
       /\ call'.op = "show_create" =>
            /\ tables'.analysis = tables.analysis
            /\ \A r \in tables.tvshow \cup tables'.tvshow :
                  r.video_url # call'.video_url
                  => (r \in tables.tvshow /\ r \in tables'.tvshow)
            /\ \E r \in tables'.tvshow :
                  /\ r.video_url = call'.video_url
                  /\ r.title = call'.title
                  /\ r.tmdb_id = call'.tmdb_id]_vars

\* a record of a key has been overwritten while another key has a record
C23_Witness ==
    /\ call.op = "analysis_create"
    /\ call.n = 3
    /\ Cardinality(tables.analysis) = 2
    /\ \E r \in tables.analysis :
          /\ r.video_id = call.video_id
          /\ r.model_type = call.model_type
          /\ r.id # call.n
          /\ r.model_output = call.model_output
          /\ r.model_output = [kind |-> "speech"]


\* A line of the form [MM:SS] text.
WellFormedLine(line) ==
    /\ line.bracket
    /\ Len(line.parts) = 2
    /\ line.parts[1] # NaN
    /\ line.parts[2] # NaN

RECURSIVE EntriesOfWellFormed(_)
EntriesOfWellFormed(lines) ==
    IF lines = <<>> THEN <<>>
    ELSE LET rest == EntriesOfWellFormed(Tail(lines))
             l == Head(lines)
         IN  IF WellFormedLine(l)
             THEN <<[timestamp |-> l.parts,
                     seconds |-> l.parts[1] * 60 + l.parts[2],
                     text |-> l.text]>> \o rest
             ELSE rest

\* C24: for every transcript, _parse_transcript_to_json returns exactly the
\* well-formed [MM:SS] text lines in input order, each with seconds =
\* MM*60+SS; a line that is not well-formed is dropped and changes nothing
\* of the result for the lines before and after it.
C24_ParseKeepsWellFormedLines ==
    call.op = "parse_transcript"
        => call.output = EntriesOfWellFormed(call.input)


\* C25: given N screenshots and a response that holds no valid JSON array,
\* describe_screenshots returns exactly N entries, the i-th for the i-th
\* file, and so a non-empty list, which is what the caller takes as the
\* sub-stage's success.
C25_OneEntryPerFrame ==
    (call.op = "describe_screenshots"
        /\ ~(call.response.bracketed /\ call.response.valid))
    => /\ Len(call.output) = Len(call.input)
       /\ \A i \in 1..Len(call.input) :
             call.output[i].filename = call.input[i]
       /\ call.output # <<>>

\* the response held brackets that are no JSON; every file got a placeholder
C25_Witness ==
    /\ call.op = "describe_screenshots"
    /\ call.response.bracketed
    /\ ~call.response.valid
    /\ Len(call.input) = MaxFrames
    /\ \A i \in 1..Len(call.output) :
          call.output[i].description = "could_not_process"


\* C26: search_and_get_best_match never raises; it returns None when the
\* search has no result, the first result has no id, the content type is
\* unknown or a request fails in transport; and a run whose enrichment
\* found nothing or failed still ends completed.
C26_EnricherNeverRaisesNorFailsRun ==
    /\ call.op = "search_and_get_best_match" =>
          /\ ~call.output.raised
          /\ (\/ call.content_type \notin {"tv", "movie"}
              \/ call.search \in {"transport_error", "empty", "no_id"}
              \/ call.details = "transport_error")
             => ~call.output.found
    /\ \A t \in Runs :
          (threads[t].pc = "done" /\ threads[t].tmdb \in {"no_match", "failed"})
          => threads[t].result = "completed"

\* the enricher met a result that is no object, and a run whose enrichment
\* failed has ended
C26_Witness ==
    /\ call.op = "search_and_get_best_match"
    /\ call.search = "malformed"
    /\ call.content_type = "tv"
    /\ \E t \in Runs : threads[t].pc = "done" /\ threads[t].tmdb = "no_match"


\* The positions of a run inside the audio fallback.
AudioPcs ==
    {"extract_audio", "a2t_upload", "a2t_sleep", "a2t_get_file",
     "a2t_generate", "save_audio_transcript"}

TranscriptErrors == {"transcript_audio", "transcript_error"}

\* C27: a run enters the audio fallback exactly when its transcript
\* extraction failed; a fallback that succeeded writes the single-segment
\* transcript row; a fallback that failed (the audio could not be extracted,
\* or the speech-to-text failed) records the transcript stage in the error
\* list and stores no transcript; and the run goes on to the frame extraction
\* either way.
C27_AudioFallback ==
    [][\A t \in Runs :
          LET a == threads[t]
              b == threads'[t]
          IN  /\ (b.pc \in AudioPcs /\ a.pc \notin AudioPcs)
                    => a.pc = "extract_transcript"
              /\ (a.pc = "extract_transcript" /\ b.pc # a.pc)
                    => (b.pc = "extract_audio"
                          <=> <<Vid(t), "transcript">> \notin files')
              /\ (a.pc \in AudioPcs /\ b.pc \notin AudioPcs)
                    => /\ b.pc = "extract_screenshot"
                       /\ IF a.pc = "save_audio_transcript" /\ a.stt = "text"
                          THEN /\ analysis'[a.url]["transcript"] =
                                      [kind |-> "speech"]
                               /\ b.errs \cap TranscriptErrors = {}
                          ELSE /\ b.errs \cap TranscriptErrors # {}
                               /\ analysis' = analysis]_vars


\* C28: in a run whose frame extraction wrote frames, the failure of one
\* sub-stage does not keep the others from running and persisting: when the
\* descriptions were not persisted, the identification that was produced is
\* persisted and the enrichment has run; when the identification was not
\* persisted, the descriptions that were produced are; when the enrichment
\* failed, both are.
C28_SubStagesIndependent ==
    \A t \in Runs :
        (threads[t].pc = "done" /\ threads[t].shots = "frames")
        => LET Identified ==
                   threads[t].ident \in {"no_title", "json_title", "json_bad"}
           IN  /\ (Identified /\ "image_descriptions" \notin threads[t].comps)
                     => /\ "show_identification" \in threads[t].comps
                        /\ threads[t].tmdb # ""
               /\ (threads[t].desc
                        /\ "show_identification" \notin threads[t].comps)
                     => "image_descriptions" \in threads[t].comps
               /\ threads[t].tmdb \in {"failed", "no_match"}
                     => /\ Identified
                              => "show_identification" \in threads[t].comps
                        /\ threads[t].desc
                              => "image_descriptions" \in threads[t].comps


\* C29: the tv_show_info row of a key is written or changed only by a run
\* whose identification gave a title and that invoked the enricher; a run
\* whose identification gave no title leaves tv_show_info alone.
C29_IdentityOnlyWithTitle ==
    [][tvshow' # tvshow
          => \E t \in Runs :
                /\ threads[t].pc = "save_show"
                /\ threads'[t].pc # "save_show"
                /\ threads[t].ident = "json_title"
                /\ threads[t].tmdb \in {"match", "no_match"}]_vars

\* C30: a run whose identification response held no JSON object counts the
\* identification as done, uses the identity without title (no catalog
\* lookup, a tv_show_info row without title and catalog id), and ends with
\* the terminal status its other components give it.
C30_UnparseableIdentification ==
    \A t \in Runs :
        (threads[t].pc = "done" /\ threads[t].ident = "no_title"
            /\ threads[t].tmdb # "")
        => /\ "show_identification" \in threads[t].comps
           /\ threads[t].tmdb = "not_called"
           /\ tvshow[threads[t].url].present
           /\ ~tvshow[threads[t].url].title
           /\ threads[t].result =
                 IF threads[t].comps
                        \ {"show_identification", "tmdb_enrichment"} # {}
                 THEN "completed" ELSE "failed"


\* C31: for a stream that opens and has a readable frame rate,
\* extract_and_save_screenshot returns true and writes exactly
\* floor(duration / interval) images, at the seconds 0, interval,
\* 2 * interval, ...; for a stream that does not open or whose frame rate
\* is unreadable it writes nothing and returns false.
C31_OneImagePerWholeInterval ==
    call.op = "extract_and_save_screenshot"
    => IF ~call.opened \/ call.fps = 0
       THEN /\ ~call.output.ret
            /\ ~call.output.raised
            /\ call.output.written = {}
       ELSE /\ call.output.ret
            /\ Cardinality(call.output.written)
                  = call.duration \div call.interval
            /\ call.output.written =
                  {k * call.interval :
                      k \in 0..(call.duration \div call.interval - 1)}

\* C32: whatever the response, the entry of a file has the second of the
\* file's name as its seconds and that second's MM:SS as its timestamp, and
\* the entries are ordered by increasing seconds.
C32_SecondsFromFilename ==
    call.op = "describe_screenshots"
    => /\ \A i \in 1..Len(call.output) :
             /\ call.output[i].seconds = call.output[i].filename
             /\ call.output[i].timestamp = Timestamp(call.output[i].filename)
       /\ \A i, j \in 1..Len(call.output) :
             i < j => call.output[i].seconds < call.output[j].seconds

\* The stage a position of a run belongs to, in the order of
\* preprocess_youtube_url.
Stage(pc) ==
    CASE pc \in {"status10", "status20", "progress30", "progress35",
                 "progress40"} -> 1
      [] pc \in {"extract_transcript", "save_transcript", "extract_audio",
                 "a2t_upload", "a2t_sleep", "a2t_get_file", "a2t_generate",
                 "save_audio_transcript"} -> 2
      [] pc = "extract_screenshot" -> 3
      [] pc \in {"describe_glob", "describe80", "describe85"} -> 4
      [] pc \in {"identify_glob", "identify80", "identify85"} -> 5
      [] pc \in {"save_descriptions", "save_identification"} -> 6
      [] pc \in {"progress92", "save_show"} -> 7
      [] OTHER -> 8

\* C33: within one run the stages keep their order: a run never steps back
\* to an earlier stage, frame extraction starts from the end of the
\* transcript stage, the vision-model calls start only with frame
\* extraction having returned success, and the catalog lookup starts only
\* with the identification call having returned a response.
C33_StagesInOrder ==
    [][\A t \in DOMAIN threads :
          LET old == threads[t]
              new == threads'[t]
          IN  /\ Stage(new.pc) >= Stage(old.pc)
              /\ (new.pc = "extract_screenshot" /\ old.pc # new.pc)
                     => Stage(old.pc) = 2
              /\ Stage(new.pc) \in {4, 5} => new.shots \in {"frames", "empty"}
              /\ Stage(new.pc) = 7
                     => /\ new.shots \in {"frames", "empty"}
                        /\ new.ident \in {"no_title", "json_title", "json_bad"}
                        /\ Stage(old.pc) \in {5, 6, 7}]_vars

\* A run that went through every stage: captions saved, frames extracted,
\* both vision-model calls made, the catalog asked and answering.
C33_Witness ==
    \E t \in DOMAIN threads :
        /\ threads[t].pc = "save_show"
        /\ threads[t].tmdb = "match"
        /\ threads[t].shots = "frames"
        /\ threads[t].desc
        /\ "transcript" \in threads[t].comps

\* C34: a status row shows nothing of an earlier run: a pending or
\* processing row has no error message and no completion time, and its
\* progress is the last value the current run wrote (0 before its first
\* write); a completed row has no error message.
C34_NoDataOfEarlierRun ==
    \A url \in URLs :
        LET row == status[url]
        IN  row.present =>
              /\ row.status \in {"pending", "processing"} =>
                    /\ row.error_message = NoMessage
                    /\ row.completed_at = None
                    /\ \E t \in Runs : /\ threads[t].url = url
                                       /\ threads[t].pc # "done"
                                       /\ row.progress = threads[t].prog
              /\ row.status = "completed" => row.error_message = NoMessage

\* C35: for every response describe_screenshots returns exactly one entry
\* per screenshot file, the i-th carrying the name of the i-th file of the
\* sorted list, with a placeholder where the response gives no description.
C35_OneEntryPerFileAnyResponse ==
    call.op = "describe_screenshots"
    => /\ Len(call.output) = Len(call.input)
       /\ \A i \in 1..Len(call.input) :
             /\ call.output[i].filename = call.input[i]
             /\ call.output[i].description
                    \in {"described", "part", "not_available",
                         "could_not_process"}

\* C36: writing a caption track with extract_and_save_transcript and parsing
\* the file with _parse_transcript_to_json gives one record per caption
\* item, in order, with the whole seconds of the item's start and the
\* item's text.
C36_TranscriptRoundTrip ==
    call.op = "write_then_parse"
    => /\ Len(call.output) = Len(call.input)
       /\ \A i \in 1..Len(call.input) :
             /\ call.output[i].seconds = call.input[i].start \div 2
             /\ <<call.output[i].text>> = call.input[i].text

\* The connected users whose recorded session is s and who joined the
\* master-enabled session s as master.
JoinedAsMaster(s) ==
    {u \in SIDs : /\ connections[u] = "connected"
                  /\ u \in DOMAIN user_sessions
                  /\ user_sessions[u].session_id = s
                  /\ user_sessions[u].is_master
                  /\ sessions[s].is_master}

\* C37: session_masters[s] is defined exactly when some connected user
\* whose recorded session is s joined the master-enabled session s as
\* master, and then it names such a user; so the entry of a session whose
\* master is connected outlives the disconnect of any other user.
C37_MasterEntryIffConnectedMaster ==
    \A s \in SessionIds :
        /\ s \in DOMAIN session_masters <=> JoinedAsMaster(s) # {}
        /\ s \in DOMAIN session_masters
              => session_masters[s] \in JoinedAsMaster(s)

\* C38: a sync_video_time broadcast goes to the room of session s only from
\* a video_time_update of a connected user whose recorded session is s and
\* who is the master of the master-enabled session s.
C38_TimeBroadcastOnlyFromMaster ==
    [][\A e \in emitted' :
          (e.event = "sync_video_time" /\ e.to # {})
          => /\ e.room \in SessionIds
             /\ e.by \in JoinedAsMaster(e.room)
             /\ e.room \in DOMAIN session_masters
             /\ session_masters[e.room] = e.by]_vars

\* C39: once the disconnect of a connection is handled, user_sessions has
\* no entry for it and session_users has no row for it in any session.
C39_DisconnectClearsRegistry ==
    \A u \in SIDs :
        connections[u] = "disconnected"
        => /\ u \notin DOMAIN user_sessions
           /\ \A s \in SessionIds : <<s, u>> \notin session_users

====
